---- MODULE Spec2Model ----
(***************************************************************************)
(* State-machine model of the option-contract program                      *)
(* (programs/option-contract/src).                                         *)
(*                                                                         *)
(* The pool ledger is the Lp account (sol_amount, usdc_amount and their    *)
(* locked counterparts) written by initialize, sell_option and the         *)
(* withdraw handlers.  The settlement handlers (exercise_option,           *)
(* auto_exercise) address the same ledger through Custody accounts: the    *)
(* custody of a mint has the balance lp.amount[mint] and the locked        *)
(* balance lp.locked[mint] (its token_locked field).                       *)
(*                                                                         *)
(* A failed instruction aborts its transaction and leaves every account    *)
(* as it was, so a handler's error paths are the guard of its action; the  *)
(* error a call would return in a state is given by the handler's          *)
(* *_err operator.                                                         *)
(***************************************************************************)
EXTENDS Integers, Sequences, FiniteSets, TLC

(* ------------------------------ bounds -------------------------------- *)
\* the last instant of the clock, the number of options sold in a run, and
\* the tokens each trader holds at the start
MaxTime == 2
MaxOptions == 2
InitWallet == 4
\* the tokens of each mint deposited into the pool before the first sale of
\* SpecSettle
PoolDeposit == 4

(* ------------------------- identities and inputs ----------------------- *)
WSOL == "WSOL"
USDC == "USDC"
Mints == {WSOL, USDC}
Oracles == {"oracleA", "oracleB"}
NoKey == "none"

MultisigSigners == {"s1", "s2", "s3"}
\* the traders that sell options, and every key that signs an instruction
Traders == {"u1"}
Callers == MultisigSigners \cup Traders \cup {"u2"}
Admin == "s1"

\* decimals of the two token mints, as add_custody reads them from the mint
MintDecimals == [m \in Mints |-> 0]

\* the inputs of the instructions
Amounts == {2}
Premiums == {2}
Strikes == {2}
Expiries == {2}
LivePrices == {1, 2, 4}
Prices == {0} \cup LivePrices

\* u64 arithmetic.  The program's modulus is 2^64; TLC's integers are 32 bit
\* wide, so the model wraps at 2^30, far above every value the bounds reach.
U64 == 2^30

\* a += b, a -= b on u64 fields in a build that wraps on overflow (a build
\* with overflow-checks panics instead, and the transaction aborts)
u64_add(a, b) == IF a + b < U64 THEN a + b ELSE (a + b) % U64
u64_sub(a, b) == IF a >= b THEN a - b ELSE a - b + U64

(* ---------------------------- decimal math ----------------------------- *)
RECURSIVE Pow10(_)
Pow10(n) == IF n <= 0 THEN 1 ELSE 10 * Pow10(n - 1)

Overflow == -1

\* scale mantissa c by 10^e (e may be negative: truncating division)
scale_to_exponent(c, e) == IF e >= 0 THEN c * Pow10(e) ELSE c \div Pow10(-e)

\* (c1 * 10^e1) * (c2 * 10^e2) expressed with exponent target
checked_decimal_mul(c1, e1, c2, e2, target) ==
    LET r == scale_to_exponent(c1 * c2, e1 + e2 - target)
    IN IF r >= U64 THEN Overflow ELSE r

\* (c1 * 10^e1) / (c2 * 10^e2) expressed with exponent target; c2 > 0
checked_decimal_div(c1, e1, c2, e2, target) ==
    LET sh == e1 - e2 - target
        r == IF sh >= 0 THEN (c1 * Pow10(sh)) \div c2
                        ELSE c1 \div (c2 * Pow10(-sh))
    IN IF r >= U64 THEN Overflow ELSE r

\* f64 -> u64; the model's prices are whole numbers
checked_as_u64(x) == IF x < 0 \/ x >= U64 THEN Overflow ELSE x

\* locked - amount, an error on underflow
checked_sub(a, b) == IF a >= b THEN a - b ELSE Overflow

(* ------------------------------ oracle --------------------------------- *)
MaxPriceAge == 30
Ages == {0, MaxPriceAge + 1}
\* the quotes an instruction can succeed on: fresh and positive
LiveQuotes == [price : LivePrices, exponent : {0}, age : {0}]
\* a quote is what one oracle account holds when an instruction reads it:
\* a live one, a fresh one without a positive price, or a stale one
Quotes ==
    LiveQuotes \cup [price : {0}, exponent : {0}, age : {0}]
               \cup [price : Strikes, exponent : {0}, age : Ages \ {0}]

\* OraclePrice::new_from_oracle: the error of reading quote q, or "Ok"
new_from_oracle_err(q) ==
    IF q.age > MaxPriceAge THEN "StalePriceError"
    ELSE IF q.price <= 0 THEN "InvalidPriceRequirementError"
    ELSE "Ok"

\* OraclePrice::get_price: mantissa * 10^exponent
get_price(q) == scale_to_exponent(q.price, q.exponent)

VARIABLES
    now,            \* contract.get_time(): the cluster's unix time
    lp,             \* the pool ledger: [amount, locked : Mints -> u64]
    lp_ata,         \* token balance of the pool's token account, per mint
    wallet,         \* token balance of each caller's token account, per mint
    user,           \* user.option_index, per trader
    option_detail,  \* the option records of each trader, by index
    pool_custodies, \* pool.custodies
    custody,        \* the Custody account of each mint
    multisig,       \* the Multisig account
    signed_params,  \* history: the parameters each set signature bit was given for
    premium_paid,   \* history: premiums transferred into the pool, per mint
    payout_paid,    \* history: payouts transferred out of the pool, per mint
    withdrawn       \* history: tokens withdrawn from the pool, per mint

vars == <<now, lp, lp_ata, wallet, user, option_detail, pool_custodies,
          custody, multisig, signed_params, premium_paid, payout_paid,
          withdrawn>>

admin_vars == <<pool_custodies, custody, multisig, signed_params>>
book_vars == <<lp, lp_ata, wallet, user, option_detail, premium_paid,
               payout_paid, withdrawn>>

Zero == [m \in Mints |-> 0]
EmptyCustody == [mint |-> NoKey, oracle |-> NoKey, decimals |-> 0]
MinSignatures == 2

\* initialize: the ledger starts empty; accounts not yet created read as zero
Init ==
    /\ now = 1
    /\ lp = [amount |-> Zero, locked |-> Zero]
    /\ lp_ata = Zero
    /\ wallet = [c \in Callers |->
                    [m \in Mints |-> IF c \in Traders THEN InitWallet ELSE 0]]
    /\ user = [u \in Traders |-> 0]
    /\ option_detail = [u \in Traders |-> <<>>]
    /\ pool_custodies = <<>>
    /\ custody = [m \in Mints |-> EmptyCustody]
    /\ multisig = [signers |-> MultisigSigners,
                   min_signatures |-> MinSignatures,
                   signed |-> {},
                   instruction_hash |-> <<>>,
                   executed |-> FALSE]
    /\ signed_params = [s \in MultisigSigners |-> <<>>]
    /\ premium_paid = Zero
    /\ payout_paid = Zero
    /\ withdrawn = Zero

\* the clock of the cluster advances between instructions
Tick ==
    /\ now < MaxTime
    /\ now' = now + 1
    /\ UNCHANGED <<admin_vars, book_vars>>

(* ----------------------------- multisig -------------------------------- *)
\* Multisig::get_instruction_hash over the instruction's accounts and data;
\* the hash is taken to be collision free, so it is the pair it is made of.
get_instruction_hash(accounts, data) == <<accounts, data>>

\* the outcomes of a signature that is counted
SignStartsOver(ms, signer, hash) ==
    [err |-> "Ok", left |-> ms.min_signatures - 1,
     ms |-> [ms EXCEPT !.signed = {signer}, !.instruction_hash = hash,
                       !.executed = (ms.min_signatures - 1 = 0)]]
SignAdds(ms, signer) ==
    LET n == Cardinality(ms.signed) + 1
    IN [err |-> "Ok", left |-> ms.min_signatures - n,
        ms |-> [ms EXCEPT !.signed = ms.signed \cup {signer},
                          !.executed = (ms.min_signatures - n = 0)]]
SignFails(ms, e) == [err |-> e, left |-> 0, ms |-> ms]

\* sign_multisig that counts any caller's signature
sign_multisig_anyone(ms, signer, hash) ==
    IF hash # ms.instruction_hash THEN SignStartsOver(ms, signer, hash)
    ELSE IF signer \in ms.signed
    THEN SignFails(ms, "AlreadySignedMultiSigError")
    ELSE IF ms.executed THEN SignFails(ms, "AlreadyExecutedMultiSigError")
    ELSE SignAdds(ms, signer)

\* sign_multisig that counts a repeated signature
sign_multisig_again(ms, signer, hash) ==
    IF signer \notin ms.signers
    THEN SignFails(ms, "NotAuthorizedMultiSigError")
    ELSE IF hash # ms.instruction_hash THEN SignStartsOver(ms, signer, hash)
    ELSE IF ms.executed THEN SignFails(ms, "AlreadyExecutedMultiSigError")
    ELSE SignAdds(ms, signer)

\* sign_multisig that keeps counting after the execution
sign_multisig_reexecuting(ms, signer, hash) ==
    IF signer \notin ms.signers
    THEN SignFails(ms, "NotAuthorizedMultiSigError")
    ELSE IF hash # ms.instruction_hash THEN SignStartsOver(ms, signer, hash)
    ELSE IF signer \in ms.signed
    THEN SignFails(ms, "AlreadySignedMultiSigError")
    ELSE [SignAdds(ms, signer) EXCEPT !.left = 0, !.ms.executed = TRUE]

\* sign_multisig that carries the signatures of the last instruction over to
\* the next one
sign_multisig_keeping_bits(ms, signer, hash) ==
    IF signer \notin ms.signers
    THEN SignFails(ms, "NotAuthorizedMultiSigError")
    ELSE IF hash # ms.instruction_hash
    THEN IF signer \in ms.signed
         THEN [SignStartsOver(ms, signer, hash) EXCEPT !.ms.signed = ms.signed]
         ELSE [SignAdds([ms EXCEPT !.executed = FALSE], signer)
                  EXCEPT !.ms.instruction_hash = hash]
    ELSE IF signer \in ms.signed
    THEN SignFails(ms, "AlreadySignedMultiSigError")
    ELSE IF ms.executed THEN SignFails(ms, "AlreadyExecutedMultiSigError")
    ELSE SignAdds(ms, signer)

\* Multisig::sign_multisig: [err, left, ms], ms the account after the call.
\* A hash other than the bound one is another instruction: the proposal
\* starts over, bound to the new hash.
sign_multisig(ms, signer, hash) ==
    IF signer \notin ms.signers
    THEN SignFails(ms, "NotAuthorizedMultiSigError")
    ELSE IF hash # ms.instruction_hash THEN SignStartsOver(ms, signer, hash)
    ELSE IF signer \in ms.signed
    THEN SignFails(ms, "AlreadySignedMultiSigError")
    ELSE IF ms.executed THEN SignFails(ms, "AlreadyExecutedMultiSigError")
    ELSE SignAdds(ms, signer)

(* ---------------------------- add_custody ------------------------------ *)
PoolName == "pool"

\* add_custody that leaves the oracle out of what the signers sign
add_custody_instruction_without_oracle(mint, oracle) ==
    get_instruction_hash(<<mint>>, <<"AddCustody", PoolName>>)

\* what add_custody hands to sign_multisig: the accounts after the signer
\* (the custody and its mint among them) and the encoded parameters
add_custody_instruction(mint, oracle) ==
    get_instruction_hash(<<mint>>, <<"AddCustody", oracle, PoolName>>)

\* add_custody that goes on to record the custody while signatures are missing
add_custody_result_no_early_return(signer, mint, oracle) ==
    LET s == sign_multisig(multisig, signer, add_custody_instruction(mint, oracle))
        fail(e) == [err |-> e, ret |-> 0, ms |-> multisig, custody |-> custody]
    IN IF s.err # "Ok" THEN fail(s.err)
       ELSE IF pool_custodies = <<>> THEN fail("Panic")
       ELSE IF pool_custodies[Len(pool_custodies)] # mint
       THEN fail("RequireKeysEqViolated")
       ELSE [err |-> "Ok", ret |-> s.left, ms |-> s.ms,
             custody |-> [custody EXCEPT ![mint] =
                            [mint |-> mint, oracle |-> oracle,
                             decimals |-> MintDecimals[mint]]]]

\* add_custody: [err, ret, ms, custody]
add_custody_result(signer, mint, oracle) ==
    LET s == sign_multisig(multisig, signer, add_custody_instruction(mint, oracle))
        fail(e) == [err |-> e, ret |-> 0, ms |-> multisig, custody |-> custody]
    IN IF s.err # "Ok" THEN fail(s.err)
       ELSE IF s.left > 0
       THEN [err |-> "Ok", ret |-> s.left, ms |-> s.ms, custody |-> custody]
       ELSE IF pool_custodies = <<>> THEN fail("Panic")
       ELSE IF pool_custodies[Len(pool_custodies)] # mint
       THEN fail("RequireKeysEqViolated")
       ELSE [err |-> "Ok", ret |-> 0, ms |-> s.ms,
             custody |-> [custody EXCEPT ![mint] =
                            [mint |-> mint, oracle |-> oracle,
                             decimals |-> MintDecimals[mint]]]]

add_custody(signer, mint, oracle) ==
    LET r == add_custody_result(signer, mint, oracle)
    IN /\ r.err = "Ok"
       /\ multisig' = r.ms
       /\ custody' = r.custody
       /\ signed_params' = [s \in MultisigSigners |->
                              IF s = signer THEN <<mint, oracle>>
                              ELSE IF s \in r.ms.signed THEN signed_params[s]
                              ELSE <<>>]
       /\ UNCHANGED <<now, pool_custodies, book_vars>>

\* the registration step that appends a custody to the pool's list
pool_append_custody(mint) ==
    /\ \A i \in 1..Len(pool_custodies) : pool_custodies[i] # mint
    /\ pool_custodies' = Append(pool_custodies, mint)
    /\ UNCHANGED <<now, custody, multisig, signed_params, book_vars>>

(* ----------------------------- sell_option ---------------------------- *)
PayMint(pay_sol) == IF pay_sol THEN WSOL ELSE USDC
LockMint(is_call) == IF is_call THEN WSOL ELSE USDC

\* the asset every option is written on: sell_option prices against the
\* SOL/USD feed, and the option record is addressed by this custody
TargetMint == WSOL

\* the ledger after the premium of sell_option is credited
sell_option_credit(pay_sol, premium) ==
    [lp.amount EXCEPT ![PayMint(pay_sol)] = u64_add(@, premium)]

\* the ledger after sell_option locks the notional of the option
sell_option_lock(amt, is_call, amount) ==
    [amount |-> [amt EXCEPT ![LockMint(is_call)] = u64_sub(@, amount)],
     locked |-> [lp.locked EXCEPT ![LockMint(is_call)] = u64_add(@, amount)]]

\* the error sell_option returns, or "Ok"
sell_option_err(signer, amount, is_call, pay_sol, premium) ==
    IF wallet[signer][PayMint(pay_sol)] < premium
    THEN "InvalidSignerBalanceError"
    ELSE IF sell_option_credit(pay_sol, premium)[LockMint(is_call)] < amount
    THEN "InvalidPoolBalanceError"
    ELSE "Ok"

\* sell_option that numbers the record with the counter before the sale
sell_option_record_stale_index(signer, index, amount, strike, expired_time, is_call, pay_sol, premium) ==
    [owner |-> signer, index |-> index - 1, amount |-> amount,
     quantity |-> amount, strike_price |-> strike,
     expired_date |-> expired_time, option_type |-> is_call,
     premium |-> premium, premium_unit |-> pay_sol,
     valid |-> TRUE, exercised |-> 0, claimed |-> 0, profit |-> 0]

\* the record sell_option stores in the freshly created option account
sell_option_record(signer, index, amount, strike, expired_time, is_call, pay_sol, premium) ==
    [owner |-> signer, index |-> index, amount |-> amount,
     quantity |-> amount, strike_price |-> strike,
     expired_date |-> expired_time, option_type |-> is_call,
     premium |-> premium, premium_unit |-> pay_sol,
     valid |-> TRUE, exercised |-> 0, claimed |-> 0, profit |-> 0]

OptionsSold == Len(option_detail["u1"])

sell_option(signer, amount, strike, expired_time, is_call, pay_sol, premium) ==
    LET option_index == user[signer] + 1
        P == PayMint(pay_sol)
    IN /\ OptionsSold < MaxOptions
       /\ sell_option_err(signer, amount, is_call, pay_sol, premium) = "Ok"
       /\ wallet' = [wallet EXCEPT ![signer][P] = @ - premium]
       /\ lp_ata' = [lp_ata EXCEPT ![P] = @ + premium]
       /\ lp' = sell_option_lock(sell_option_credit(pay_sol, premium),
                                 is_call, amount)
       /\ option_detail' = [option_detail EXCEPT ![signer] =
              Append(@, sell_option_record(signer, option_index, amount,
                        strike, expired_time, is_call, pay_sol, premium))]
       /\ user' = [user EXCEPT ![signer] = option_index]
       /\ premium_paid' = [premium_paid EXCEPT ![P] = @ + premium]
       /\ UNCHANGED <<now, admin_vars, payout_paid, withdrawn>>

(* --------------------------- exercise_option --------------------------- *)
\* the accounts of a settlement instruction resolve: the option record of
\* (owner, index) written on the target custody, and two registered custodies
settle_accounts_err(owner, option_index, custody_mint, locked_mint) ==
    IF \/ owner \notin Traders
       \/ option_index \notin 1..Len(option_detail[owner])
       \/ custody_mint # TargetMint
       \/ custody[custody_mint].mint # custody_mint
       \/ custody[locked_mint].mint # locked_mint
    THEN "AccountNotInitialized"
    ELSE "Ok"

\* exercise_option without its re-exercise checks
exercise_option_state_err_unchecked(od, counter, option_index) ==
    IF counter < option_index THEN "RequireGteViolated" ELSE "Ok"

\* the validation checks at the head of exercise_option
exercise_option_state_err(od, counter, option_index) ==
    IF counter < option_index THEN "RequireGteViolated"
    ELSE IF od.exercised # 0 THEN "OptionAlreadyExercised"
    ELSE IF ~od.valid THEN "OptionNotValid"
    ELSE "Ok"

\* exercise_option whose expiry check lets the expiry instant through
exercise_option_time_err_inclusive(od, current_timestamp) ==
    IF od.expired_date >= current_timestamp THEN "Ok" ELSE "InvalidTimeError"

\* exercise_option is open strictly before the expiry
exercise_option_time_err(od, current_timestamp) ==
    IF od.expired_date > current_timestamp THEN "Ok" ELSE "InvalidTimeError"

\* exercise_option that settles an out-of-the-money position at zero
exercise_option_profit_zero_settled(od, custody_mint, locked_mint, sol_price, token_price) ==
    LET oracle_price == get_price(sol_price)
        is_call == (custody_mint = locked_mint)
        dec == custody[custody_mint].decimals
        out == IF is_call THEN dec ELSE custody[locked_mint].decimals
        diff == IF is_call THEN oracle_price - od.strike_price
                           ELSE od.strike_price - oracle_price
        price_diff == checked_as_u64(diff)
        amount == checked_decimal_mul(price_diff, 0, od.quantity, 0, -dec)
        profit == checked_decimal_div(amount, -dec, token_price.price,
                                      token_price.exponent, -out)
    IN IF diff < 0 THEN [err |-> "Ok", profit |-> 0]
       ELSE IF price_diff = Overflow \/ amount = Overflow
       THEN [err |-> "OverflowMathError", profit |-> 0]
       ELSE IF token_price.price <= 0
       THEN [err |-> "InvalidPriceRequirementError", profit |-> 0]
       ELSE IF profit = Overflow THEN [err |-> "OverflowMathError", profit |-> 0]
       ELSE [err |-> "Ok", profit |-> profit]

\* exercise_option whose moneyness check is strict
exercise_option_profit_strict(od, custody_mint, locked_mint, sol_price, token_price) ==
    LET oracle_price == get_price(sol_price)
        is_call == (custody_mint = locked_mint)
        dec == custody[custody_mint].decimals
        out == IF is_call THEN dec ELSE custody[locked_mint].decimals
        diff == IF is_call THEN oracle_price - od.strike_price
                           ELSE od.strike_price - oracle_price
        price_diff == checked_as_u64(diff)
        amount == checked_decimal_mul(price_diff, 0, od.quantity, 0, -dec)
        profit == checked_decimal_div(amount, -dec, token_price.price,
                                      token_price.exponent, -out)
    IN IF diff <= 0 THEN [err |-> "InvalidPriceRequirementError", profit |-> 0]
       ELSE IF price_diff = Overflow \/ amount = Overflow
       THEN [err |-> "OverflowMathError", profit |-> 0]
       ELSE IF token_price.price <= 0
       THEN [err |-> "InvalidPriceRequirementError", profit |-> 0]
       ELSE IF profit = Overflow THEN [err |-> "OverflowMathError", profit |-> 0]
       ELSE [err |-> "Ok", profit |-> profit]

\* the payout of exercise_option: [err, profit]
exercise_option_profit(od, custody_mint, locked_mint, sol_price, token_price) ==
    LET oracle_price == get_price(sol_price)
        is_call == (custody_mint = locked_mint)
        dec == custody[custody_mint].decimals
        out == IF is_call THEN dec ELSE custody[locked_mint].decimals
        diff == IF is_call THEN oracle_price - od.strike_price
                           ELSE od.strike_price - oracle_price
        price_diff == checked_as_u64(diff)
        amount == checked_decimal_mul(price_diff, 0, od.quantity, 0, -dec)
        profit == checked_decimal_div(amount, -dec, token_price.price,
                                      token_price.exponent, -out)
    IN IF diff < 0 THEN [err |-> "InvalidPriceRequirementError", profit |-> 0]
       ELSE IF price_diff = Overflow \/ amount = Overflow
       THEN [err |-> "OverflowMathError", profit |-> 0]
       ELSE IF token_price.price <= 0
       THEN [err |-> "InvalidPriceRequirementError", profit |-> 0]
       ELSE IF profit = Overflow THEN [err |-> "OverflowMathError", profit |-> 0]
       ELSE [err |-> "Ok", profit |-> profit]

\* exercise_option: [err, profit]; caller is the signer, sol_price and
\* token_price the quotes of the custody's and the locked custody's oracle
exercise_option_result(caller, option_index, custody_mint, locked_mint, sol_price, token_price) ==
    LET fail(e) == [err |-> e, profit |-> 0]
        acc == settle_accounts_err(caller, option_index, custody_mint, locked_mint)
        od == option_detail[caller][option_index]
        st == exercise_option_state_err(od, user[caller], option_index)
        pay == exercise_option_profit(od, custody_mint, locked_mint,
                                      sol_price, token_price)
    IN IF acc # "Ok" THEN fail(acc)
       ELSE IF st # "Ok" THEN fail(st)
       ELSE IF od.owner # caller THEN fail("InvalidOwner")
       ELSE IF exercise_option_time_err(od, now) # "Ok"
       THEN fail(exercise_option_time_err(od, now))
       ELSE IF new_from_oracle_err(token_price) # "Ok"
       THEN fail(new_from_oracle_err(token_price))
       ELSE IF new_from_oracle_err(sol_price) # "Ok"
       THEN fail(new_from_oracle_err(sol_price))
       ELSE IF lp.locked[locked_mint] < od.amount
       THEN fail("InvalidLockedBalanceError")
       ELSE IF pay.err # "Ok" THEN fail(pay.err)
       ELSE IF lp_ata[locked_mint] < pay.profit THEN fail("InsufficientFunds")
       ELSE pay

\* exercise_option that records the exercise but leaves the option valid
exercise_option_settled_still_valid(od, profit, current_timestamp) ==
    [od EXCEPT !.profit = profit, !.exercised = current_timestamp]

\* the option record after exercise_option settles it
exercise_option_settled(od, profit, current_timestamp) ==
    [od EXCEPT !.profit = profit, !.exercised = current_timestamp,
               !.valid = FALSE]

\* both oracle accounts are fixed by the custodies: one account, one quote
SameOracle(custody_mint, locked_mint) ==
    custody[custody_mint].oracle = custody[locked_mint].oracle

exercise_option(caller, option_index, custody_mint, locked_mint, sol_price, token_price) ==
    LET r == exercise_option_result(caller, option_index, custody_mint,
                                    locked_mint, sol_price, token_price)
        od == option_detail[caller][option_index]
    IN /\ r.err = "Ok"
       /\ SameOracle(custody_mint, locked_mint) => sol_price = token_price
       /\ lp_ata' = [lp_ata EXCEPT ![locked_mint] = @ - r.profit]
       /\ wallet' = [wallet EXCEPT ![caller][locked_mint] = @ + r.profit]
       /\ option_detail' = [option_detail EXCEPT ![caller][option_index] =
                               exercise_option_settled(od, r.profit, now)]
       /\ lp' = [lp EXCEPT !.locked[locked_mint] = checked_sub(@, od.amount)]
       /\ payout_paid' = [payout_paid EXCEPT ![locked_mint] = @ + r.profit]
       /\ UNCHANGED <<now, admin_vars, user, premium_paid, withdrawn>>

(* ---------------------------- auto_exercise ---------------------------- *)
\* auto_exercise without its re-exercise checks
auto_exercise_state_err_unchecked(od, counter, option_index) ==
    IF counter < option_index THEN "RequireGteViolated" ELSE "Ok"

\* the validation checks at the head of auto_exercise
auto_exercise_state_err(od, counter, option_index) ==
    IF counter < option_index THEN "RequireGteViolated"
    ELSE IF od.exercised # 0 THEN "OptionAlreadyExercised"
    ELSE IF ~od.valid THEN "OptionNotValid"
    ELSE "Ok"

\* auto_exercise is open from the expiry on
auto_exercise_time_err(od, current_timestamp) ==
    IF current_timestamp >= od.expired_date THEN "Ok" ELSE "InvalidTimeError"

\* auto_exercise that books the distance to the strike on either side of it
auto_exercise_amount_either_side(od, custody_mint, locked_mint, token_price) ==
    LET oracle_price == get_price(token_price)
        diff == IF oracle_price > od.strike_price
                THEN oracle_price - od.strike_price
                ELSE od.strike_price - oracle_price
    IN IF custody_mint = locked_mint
       THEN (diff * od.quantity) \div oracle_price
       ELSE diff * od.quantity

\* the amount auto_exercise records as profit and claimed (f64, cast to u64)
auto_exercise_amount(od, custody_mint, locked_mint, token_price) ==
    LET oracle_price == get_price(token_price)
    IN IF custody_mint = locked_mint
       THEN IF oracle_price > od.strike_price
            THEN ((oracle_price - od.strike_price) * od.quantity) \div oracle_price
            ELSE 0
       ELSE IF od.strike_price > oracle_price
            THEN (od.strike_price - oracle_price) * od.quantity
            ELSE 0

\* auto_exercise: [err, profit]; owner is params.user
auto_exercise_result(owner, option_index, custody_mint, locked_mint, token_price) ==
    LET fail(e) == [err |-> e, profit |-> 0]
        acc == settle_accounts_err(owner, option_index, custody_mint, locked_mint)
        od == option_detail[owner][option_index]
        st == auto_exercise_state_err(od, user[owner], option_index)
    IN IF acc # "Ok" THEN fail(acc)
       ELSE IF st # "Ok" THEN fail(st)
       ELSE IF od.owner # owner THEN fail("InvalidOwner")
       ELSE IF auto_exercise_time_err(od, now) # "Ok"
       THEN fail(auto_exercise_time_err(od, now))
       ELSE IF new_from_oracle_err(token_price) # "Ok"
       THEN fail(new_from_oracle_err(token_price))
       ELSE IF lp.locked[locked_mint] < od.amount
       THEN fail("InvalidLockedBalanceError")
       ELSE [err |-> "Ok",
             profit |-> auto_exercise_amount(od, custody_mint, locked_mint,
                                             token_price)]

\* the option record after auto_exercise settles it
auto_exercise_settled(od, amount, current_timestamp) ==
    [od EXCEPT !.profit = amount, !.claimed = amount,
               !.exercised = current_timestamp, !.valid = FALSE]

\* auto_exercise that pays the booked amount out of the locked custody, as
\* exercise_option does
auto_exercise_paying(owner, option_index, custody_mint, locked_mint, token_price) ==
    LET r == auto_exercise_result(owner, option_index, custody_mint,
                                  locked_mint, token_price)
        od == option_detail[owner][option_index]
    IN /\ r.err = "Ok"
       /\ lp_ata[locked_mint] >= r.profit
       /\ lp_ata' = [lp_ata EXCEPT ![locked_mint] = @ - r.profit]
       /\ wallet' = [wallet EXCEPT ![owner][locked_mint] = @ + r.profit]
       /\ option_detail' = [option_detail EXCEPT ![owner][option_index] =
                               auto_exercise_settled(od, r.profit, now)]
       /\ lp' = [lp EXCEPT !.locked[locked_mint] = checked_sub(@, od.amount)]
       /\ UNCHANGED <<now, admin_vars, user, premium_paid, payout_paid,
                      withdrawn>>

auto_exercise(owner, option_index, custody_mint, locked_mint, token_price) ==
    LET r == auto_exercise_result(owner, option_index, custody_mint,
                                  locked_mint, token_price)
        od == option_detail[owner][option_index]
    IN /\ r.err = "Ok"
       /\ option_detail' = [option_detail EXCEPT ![owner][option_index] =
                               auto_exercise_settled(od, r.profit, now)]
       /\ lp' = [lp EXCEPT !.locked[locked_mint] = checked_sub(@, od.amount)]
       /\ UNCHANGED <<now, admin_vars, lp_ata, wallet, user, premium_paid,
                      payout_paid, withdrawn>>

(* ---------------------------- expire_option ---------------------------- *)
\* expire_option(option_index, price): the administrative close-out, an
\* auto-exercise at the settlement price the caller supplies
expire_option_result(owner, option_index, custody_mint, locked_mint, price) ==
    auto_exercise_result(owner, option_index, custody_mint, locked_mint,
                         [price |-> price, exponent |-> 0, age |-> 0])

expire_option(owner, option_index, custody_mint, locked_mint, price) ==
    LET r == expire_option_result(owner, option_index, custody_mint,
                                  locked_mint, price)
        od == option_detail[owner][option_index]
    IN /\ r.err = "Ok"
       /\ option_detail' = [option_detail EXCEPT ![owner][option_index] =
                               auto_exercise_settled(od, r.profit, now)]
       /\ lp' = [lp EXCEPT !.locked[locked_mint] = checked_sub(@, od.amount)]
       /\ UNCHANGED <<now, admin_vars, lp_ata, wallet, user, premium_paid,
                      payout_paid, withdrawn>>

(* ------------------------------ withdraw ------------------------------- *)
\* the error withdraw_usdc returns, or "Ok"
withdraw_usdc_err(signer, amount) ==
    IF lp_ata[USDC] < amount THEN "InvalidPoolBalanceError"
    ELSE IF Admin # signer THEN "AdminAuthorityError"
    ELSE "Ok"

withdraw_usdc(signer, amount) ==
    /\ withdraw_usdc_err(signer, amount) = "Ok"
    /\ lp' = [lp EXCEPT !.amount[USDC] = u64_sub(@, amount)]
    /\ lp_ata' = [lp_ata EXCEPT ![USDC] = @ - amount]
    /\ wallet' = [wallet EXCEPT ![signer][USDC] = @ + amount]
    /\ withdrawn' = [withdrawn EXCEPT ![USDC] = @ + amount]
    /\ UNCHANGED <<now, admin_vars, user, option_detail, premium_paid,
                   payout_paid>>

\* the error withdraw_wsol returns, or "Ok": only the token transfer can fail
withdraw_wsol_err(signer, amount) ==
    IF lp_ata[WSOL] < amount THEN "InsufficientFunds" ELSE "Ok"

withdraw_wsol(signer, amount) ==
    /\ withdraw_wsol_err(signer, amount) = "Ok"
    /\ lp_ata' = [lp_ata EXCEPT ![WSOL] = @ - amount]
    /\ wallet' = [wallet EXCEPT ![signer][WSOL] = @ + amount]
    /\ withdrawn' = [withdrawn EXCEPT ![WSOL] = @ + amount]
    /\ UNCHANGED <<now, admin_vars, lp, user, option_detail, premium_paid,
                   payout_paid>>

(* ------------------ exercise_option on accounts passed in -------------- *)
\* ExerciseOption whose user and option accounts are addressed by the owner
\* stored in the record, as AutoExerciseOption addresses them by params.user
exercise_option_accounts_err_by_record(caller, k, option_index) ==
    IF k[1] \notin Traders \/ k[2] \notin 1..Len(option_detail[k[1]])
    THEN "AccountNotInitialized"
    ELSE IF k[2] # option_index THEN "ConstraintSeeds"
    ELSE "Ok"

\* the account constraints of ExerciseOption for the signer caller who
\* passes the option account k = <<key, index>>: the user account is the one
\* addressed by [user, signer], the option account must be the one addressed
\* by [option, signer, params.option_index, pool, custody]
exercise_option_accounts_err(caller, k, option_index) ==
    IF caller \notin Traders THEN "AccountNotInitialized"
    ELSE IF k[1] \notin Traders \/ k[2] \notin 1..Len(option_detail[k[1]])
    THEN "AccountNotInitialized"
    ELSE IF k # <<caller, option_index>> THEN "ConstraintSeeds"
    ELSE "Ok"

\* the exercise_option instruction of the signer caller on the option
\* account k: the account constraints, then the handler with its owner check
exercise_option_as(caller, k, option_index, custody_mint, locked_mint, sol_price, token_price) ==
    LET fail(e) == [err |-> e, profit |-> 0]
        acc == exercise_option_accounts_err(caller, k, option_index)
        r == exercise_option_result(k[1], option_index, custody_mint,
                                    locked_mint, sol_price, token_price)
        od == option_detail[k[1]][k[2]]
        st == exercise_option_state_err(od, user[k[1]], option_index)
    IN IF acc # "Ok" THEN fail(acc)
       ELSE IF r.err = "AccountNotInitialized" THEN r
       ELSE IF st # "Ok" THEN fail(st)
       ELSE IF od.owner # caller THEN fail("InvalidOwner")
       ELSE r

(* ------------------------- the handlers, step by step ------------------ *)
\* the accounts the option book instructions write
Accounts ==
    [lp |-> lp, lp_ata |-> lp_ata, wallet |-> wallet,
     option_detail |-> option_detail, user |-> user]

\* sell_option in program order, [err, acc]: acc holds the accounts as the
\* handler has written them when it returns, with an error or with Ok
sell_option_in_flight(signer, amount, strike, expired_time, is_call, pay_sol, premium) ==
    LET P == PayMint(pay_sol)
        credited == sell_option_credit(pay_sol, premium)
        paid == [Accounts EXCEPT !.wallet[signer][P] = @ - premium,
                                 !.lp_ata[P] = @ + premium,
                                 !.lp.amount = credited]
        option_index == user[signer] + 1
    IN IF wallet[signer][P] < premium
       THEN [err |-> "InvalidSignerBalanceError", acc |-> Accounts]
       ELSE IF credited[LockMint(is_call)] < amount
       THEN [err |-> "InvalidPoolBalanceError", acc |-> paid]
       ELSE [err |-> "Ok",
             acc |-> [paid EXCEPT
                 !.lp = sell_option_lock(credited, is_call, amount),
                 !.option_detail[signer] = Append(@,
                     sell_option_record(signer, option_index, amount, strike,
                                        expired_time, is_call, pay_sol, premium)),
                 !.user[signer] = option_index]]

\* exercise_option without the check of the locked balance
exercise_option_checks_unlocked(caller, option_index, custody_mint, locked_mint, sol_price, token_price) ==
    LET r == exercise_option_result(caller, option_index, custody_mint,
                                    locked_mint, sol_price, token_price)
        od == option_detail[caller][option_index]
        pay == exercise_option_profit(od, custody_mint, locked_mint,
                                      sol_price, token_price)
    IN IF r.err # "InvalidLockedBalanceError" THEN r
       ELSE IF pay.err # "Ok" THEN [err |-> pay.err, profit |-> 0]
       ELSE IF lp_ata[locked_mint] < pay.profit
       THEN [err |-> "InsufficientFunds", profit |-> 0]
       ELSE pay

\* the checks of exercise_option up to and including the token transfer
exercise_option_checks(caller, option_index, custody_mint, locked_mint, sol_price, token_price) ==
    exercise_option_result(caller, option_index, custody_mint, locked_mint,
                           sol_price, token_price)

\* exercise_option in program order, [err, acc]: the checks, the transfer,
\* the record, then the checked_sub on token_locked
exercise_option_in_flight(caller, option_index, custody_mint, locked_mint, sol_price, token_price) ==
    LET r == exercise_option_checks(caller, option_index, custody_mint,
                                    locked_mint, sol_price, token_price)
        od == option_detail[caller][option_index]
        paid == [Accounts EXCEPT
                    !.lp_ata[locked_mint] = @ - r.profit,
                    !.wallet[caller][locked_mint] = @ + r.profit,
                    !.option_detail[caller][option_index] =
                        exercise_option_settled(od, r.profit, now)]
        left == checked_sub(lp.locked[locked_mint], od.amount)
    IN IF r.err # "Ok" THEN [err |-> r.err, acc |-> Accounts]
       ELSE IF left = Overflow THEN [err |-> "OverflowMathError", acc |-> paid]
       ELSE [err |-> "Ok", acc |-> [paid EXCEPT !.lp.locked[locked_mint] = left]]

\* auto_exercise in program order, [err, acc]
auto_exercise_in_flight(owner, option_index, custody_mint, locked_mint, token_price) ==
    LET r == auto_exercise_result(owner, option_index, custody_mint,
                                  locked_mint, token_price)
        od == option_detail[owner][option_index]
        closed == [Accounts EXCEPT
                      !.option_detail[owner][option_index] =
                          auto_exercise_settled(od, r.profit, now)]
        left == checked_sub(lp.locked[locked_mint], od.amount)
    IN IF r.err # "Ok" THEN [err |-> r.err, acc |-> Accounts]
       ELSE IF left = Overflow THEN [err |-> "OverflowMathError", acc |-> closed]
       ELSE [err |-> "Ok", acc |-> [closed EXCEPT !.lp.locked[locked_mint] = left]]

\* withdraw_usdc in program order, [err, acc]
withdraw_usdc_in_flight(signer, amount) ==
    IF withdraw_usdc_err(signer, amount) # "Ok"
    THEN [err |-> withdraw_usdc_err(signer, amount), acc |-> Accounts]
    ELSE [err |-> "Ok",
          acc |-> [Accounts EXCEPT !.lp.amount[USDC] = u64_sub(@, amount),
                                   !.lp_ata[USDC] = @ - amount,
                                   !.wallet[signer][USDC] = @ + amount]]

(* ---------------------------- specification ---------------------------- *)
\* withdraw_usdc is tried by the admin and by a trader; withdraw_wsol asks for
\* no authority, so a trader stands for every caller of it
WithdrawCallers == {Admin} \cup Traders

Next ==
    \/ Tick
    \/ \E s \in Callers, m \in Mints, o \in Oracles : add_custody(s, m, o)
    \/ \E m \in Mints : pool_append_custody(m)
    \/ \E u \in Traders, a \in Amounts, k \in Strikes, e \in Expiries,
          c \in BOOLEAN, p \in BOOLEAN, pr \in Premiums :
            sell_option(u, a, k, e, c, p, pr)
    \/ \E u \in Traders, i \in 1..MaxOptions, cm \in Mints, lm \in Mints,
          sp \in LiveQuotes, tp \in LiveQuotes : exercise_option(u, i, cm, lm, sp, tp)
    \/ \E u \in Traders, i \in 1..MaxOptions, cm \in Mints, lm \in Mints,
          tp \in LiveQuotes : auto_exercise(u, i, cm, lm, tp)
    \/ \E u \in Traders, i \in 1..MaxOptions, cm \in Mints, lm \in Mints,
          pr \in LivePrices : expire_option(u, i, cm, lm, pr)
    \/ \E s \in WithdrawCallers, a \in Amounts : withdraw_usdc(s, a)
    \/ \E s \in Traders, a \in Amounts : withdraw_wsol(s, a)

Spec == Init /\ [][Next]_vars

\* the administrative instructions alone: they read and write admin_vars only
NextAdmin ==
    \/ \E s \in Callers, m \in Mints, o \in Oracles : add_custody(s, m, o)
    \/ \E m \in Mints : pool_append_custody(m)

SpecAdmin == Init /\ [][NextAdmin]_vars

\* the option book of a deployed pool: both custodies registered (a state
\* SpecAdmin reaches), then the instructions that leave admin_vars alone
Deployed ==
    /\ pool_custodies = <<WSOL, USDC>>
    /\ custody = [m \in Mints |->
                    [mint |-> m, decimals |-> MintDecimals[m],
                     oracle |-> IF m = WSOL THEN "oracleA" ELSE "oracleB"]]
    /\ multisig = [signers |-> MultisigSigners,
                   min_signatures |-> MinSignatures,
                   signed |-> {"s1", "s2"},
                   instruction_hash |-> add_custody_instruction(USDC, "oracleB"),
                   executed |-> TRUE]
    /\ signed_params = [s \in MultisigSigners |->
                          IF s = "s3" THEN <<>> ELSE <<USDC, "oracleB">>]

InitBook ==
    /\ now = 1
    /\ lp = [amount |-> Zero, locked |-> Zero]
    /\ lp_ata = Zero
    /\ wallet = [c \in Callers |->
                    [m \in Mints |-> IF c \in Traders THEN InitWallet ELSE 0]]
    /\ user = [u \in Traders |-> 0]
    /\ option_detail = [u \in Traders |-> <<>>]
    /\ premium_paid = Zero
    /\ payout_paid = Zero
    /\ withdrawn = Zero
    /\ Deployed

NextBook ==
    \/ Tick
    \/ \E u \in Traders, a \in Amounts, k \in Strikes, e \in Expiries,
          c \in BOOLEAN, p \in BOOLEAN, pr \in Premiums :
            sell_option(u, a, k, e, c, p, pr)
    \/ \E u \in Traders, i \in 1..MaxOptions, cm \in Mints, lm \in Mints,
          sp \in LiveQuotes, tp \in LiveQuotes : exercise_option(u, i, cm, lm, sp, tp)
    \/ \E u \in Traders, i \in 1..MaxOptions, cm \in Mints, lm \in Mints,
          tp \in LiveQuotes : auto_exercise(u, i, cm, lm, tp)
    \/ \E u \in Traders, i \in 1..MaxOptions, cm \in Mints, lm \in Mints,
          pr \in LivePrices : expire_option(u, i, cm, lm, pr)
    \/ \E s \in WithdrawCallers, a \in Amounts : withdraw_usdc(s, a)
    \/ \E s \in Traders, a \in Amounts : withdraw_wsol(s, a)

SpecBook == InitBook /\ [][NextBook]_vars

\* the instructions whose checks and writes interleave: the deployed pool,
\* sales, and the settlements and the withdrawal that check before they write
NextSale ==
    \/ Tick
    \/ \E u \in Traders, a \in Amounts, k \in Strikes, e \in Expiries,
          c \in BOOLEAN, p \in BOOLEAN, pr \in Premiums :
            sell_option(u, a, k, e, c, p, pr)
    \/ \E u \in Traders, i \in 1..MaxOptions, cm \in Mints, lm \in Mints,
          sp \in LiveQuotes, tp \in LiveQuotes : exercise_option(u, i, cm, lm, sp, tp)
    \/ \E u \in Traders, i \in 1..MaxOptions, cm \in Mints, lm \in Mints,
          tp \in LiveQuotes : auto_exercise(u, i, cm, lm, tp)
    \/ \E s \in WithdrawCallers, a \in Amounts : withdraw_usdc(s, a)

SpecSale == InitBook /\ [][NextSale]_vars

\* the settlement of one position: the pool after a deposit of PoolDeposit
\* tokens of each mint and one sale whose premium is paid in the mint it
\* locks, then the instructions that settle the position or move tokens
SettleAmounts == {1, 3}
SettleStrikes == {2, 3}

InitSettle ==
    /\ now = 1
    /\ \E lm \in Mints, q \in SettleAmounts, k \in SettleStrikes,
          e \in Expiries, pr \in Premiums :
          /\ lp = [amount |-> [m \in Mints |-> IF m = lm THEN PoolDeposit + pr - q
                                                        ELSE PoolDeposit],
                   locked |-> [m \in Mints |-> IF m = lm THEN q ELSE 0]]
          /\ lp_ata = [m \in Mints |-> IF m = lm THEN PoolDeposit + pr
                                                 ELSE PoolDeposit]
          /\ wallet = [c \in Callers |-> [m \in Mints |->
                          IF c \notin Traders THEN 0
                          ELSE IF m = lm THEN InitWallet - pr ELSE InitWallet]]
          /\ option_detail = [u \in Traders |->
                <<sell_option_record(u, 1, q, k, e, lm = WSOL, lm = WSOL, pr)>>]
          /\ premium_paid = [m \in Mints |-> IF m = lm THEN pr ELSE 0]
    /\ user = [u \in Traders |-> 1]
    /\ payout_paid = Zero
    /\ withdrawn = Zero
    /\ Deployed

NextSettle ==
    \/ Tick
    \/ \E u \in Traders, i \in 1..MaxOptions, cm \in Mints, lm \in Mints,
          sp \in LiveQuotes, tp \in LiveQuotes : exercise_option(u, i, cm, lm, sp, tp)
    \/ \E u \in Traders, i \in 1..MaxOptions, cm \in Mints, lm \in Mints,
          tp \in LiveQuotes : auto_exercise(u, i, cm, lm, tp)
    \/ \E u \in Traders, i \in 1..MaxOptions, cm \in Mints, lm \in Mints,
          pr \in LivePrices : expire_option(u, i, cm, lm, pr)
    \/ \E s \in WithdrawCallers, a \in Amounts : withdraw_usdc(s, a)
    \/ \E s \in Traders, a \in Amounts : withdraw_wsol(s, a)

SpecSettle == InitSettle /\ [][NextSettle]_vars

\* the closing of positions after the expiry: the funded pool with one
\* position, further sales of either notional, and auto_exercise, which any
\* signer may send for any position and with any pair of custodies; the
\* clock advances and an auto_exercise that stays possible for a position
\* is eventually sent
auto_exercise_of(k) ==
    \E cm \in Mints, lm \in Mints, tp \in LiveQuotes :
        auto_exercise(k[1], k[2], cm, lm, tp)

NextClose ==
    \/ Tick
    \/ \E u \in Traders, a \in SettleAmounts, k \in Strikes, e \in Expiries,
          c \in BOOLEAN, p \in BOOLEAN, pr \in Premiums :
            sell_option(u, a, k, e, c, p, pr)
    \/ \E u \in Traders, i \in 1..MaxOptions : auto_exercise_of(<<u, i>>)

SpecClose ==
    /\ InitSettle /\ [][NextClose]_vars
    /\ WF_vars(Tick)
    /\ \A u \in Traders, i \in 1..MaxOptions : WF_vars(auto_exercise_of(<<u, i>>))

(* ======================= properties of the option book ================= *)
Positions == {<<u, i>> : u \in Traders, i \in 1..MaxOptions}
Exists(k) == k[2] <= Len(option_detail[k[1]])
Position(k) == option_detail[k[1]][k[2]]

\* settled before its expiry: only exercise_option settles then
ManuallyExercised(od) == ~od.valid /\ od.exercised < od.expired_date

\* C1: every custody satisfies 0 <= locked_balance <= total_balance in every
\* state, whatever instructions ran.
C1_LockedWithinTotal ==
    \A m \in Mints : 0 <= lp.locked[m] /\ lp.locked[m] <= lp.amount[m]

\* C2: for every option record, exercised = 0 exactly when valid is true.
C2_ExercisedIffInvalid ==
    \A k \in Positions :
        Exists(k) => ((Position(k).exercised = 0) <=> Position(k).valid)

C2_Witness ==
    \E k \in Positions :
        Exists(k) /\ ~Position(k).valid /\ Position(k).exercised > 0

\* C3: settlement is terminal: a step changes an existing option record only
\* by taking it from valid to settled, so a settled record never changes
\* again, and no record is ever removed.
C3_SettlementTerminal ==
    [][\A k \in Positions :
          Exists(k) =>
            /\ k[2] <= Len(option_detail'[k[1]])
            /\ option_detail'[k[1]][k[2]] # Position(k)
                 => Position(k).valid /\ ~option_detail'[k[1]][k[2]].valid]_vars

C3_Witness ==
    \E k \in Positions :
        Exists(k) /\ ~Position(k).valid /\ now > Position(k).exercised

StateErrors == {"OptionAlreadyExercised", "OptionNotValid"}

\* C4: on a settled option every further exercise_option, auto_exercise and
\* expire_option call whose accounts resolve returns a state error
\* (OptionAlreadyExercised or OptionNotValid); the failed call aborts, so it
\* changes nothing.
C4_SecondSettlementFails ==
    \A k \in Positions, cm \in Mints, lm \in Mints :
        (Exists(k) /\ ~Position(k).valid
           /\ settle_accounts_err(k[1], k[2], cm, lm) = "Ok")
        => /\ \A sp \in Quotes, tp \in Quotes :
                exercise_option_result(k[1], k[2], cm, lm, sp, tp).err
                    \in StateErrors
           /\ \A tp \in Quotes :
                auto_exercise_result(k[1], k[2], cm, lm, tp).err \in StateErrors
           /\ \A pr \in Prices :
                expire_option_result(k[1], k[2], cm, lm, pr).err \in StateErrors

\* a settled option that is past its expiry while a custody still has its
\* notional locked: nothing but the state checks stops a second settlement
C4_Witness ==
    \E k \in Positions, lm \in Mints :
        /\ Exists(k) /\ ~Position(k).valid
        /\ now >= Position(k).expired_date
        /\ lp.locked[lm] >= Position(k).amount

\* C5: with no withdrawal, once every option sold has been exercised by its
\* owner, each custody's total balance is what it was before the sales
\* (zero) plus the premiums collected minus the payouts paid.
C5_Conservation ==
    (/\ withdrawn = Zero
     /\ OptionsSold >= 1
     /\ \A k \in Positions : Exists(k) => ManuallyExercised(Position(k)))
    => \A m \in Mints : lp.amount[m] = premium_paid[m] - payout_paid[m]

(* ===================== properties of the multisig ====================== *)
Instructions == Mints \X Oracles
Signed == Cardinality(multisig.signed)
\* the pending proposal is the add_custody instruction with parameters p
Pending(p) == add_custody_instruction(p[1], p[2]) = multisig.instruction_hash
LastCustody == pool_custodies[Len(pool_custodies)]

\* C6: a sign that succeeds while fewer than threshold signers have signed
\* returns the number of signatures still missing, which is positive, and
\* changes no custody; a call changes a custody only when it brings the
\* number of distinct signers to the threshold and returns 0.
C6_NoEffectBelowThreshold ==
    \A c \in Callers, p \in Instructions :
        LET r == add_custody_result(c, p[1], p[2])
            n == Cardinality(r.ms.signed)
        IN /\ (r.err = "Ok" /\ n < multisig.min_signatures)
                => /\ r.ret = multisig.min_signatures - n
                   /\ r.ret > 0
                   /\ r.custody = custody
           /\ r.custody # custody
                => /\ r.err = "Ok" /\ r.ret = 0
                   /\ n = multisig.min_signatures
                   /\ c \notin multisig.signed

\* one of two signatures is in, for the custody the pool lists last, and
\* that custody is still unregistered
C6_Witness ==
    /\ Signed = 1 /\ multisig.min_signatures = 2
    /\ pool_custodies # <<>>
    /\ \E o \in Oracles : Pending(<<LastCustody, o>>)
    /\ custody[LastCustody] = EmptyCustody

\* C7: a signer whose bit is set for the pending proposal cannot sign it
\* again: the call fails with AlreadySignedMultiSigError and leaves the
\* multisig and the custodies as they are, before and after the execution.
C7_AlreadySigned ==
    \A c \in multisig.signed, p \in Instructions :
        Pending(p) =>
            LET r == add_custody_result(c, p[1], p[2])
            IN /\ r.err = "AlreadySignedMultiSigError"
               /\ r.ms = multisig
               /\ r.custody = custody

\* two of three signers have signed and the custody is registered
C7_Witness ==
    /\ Signed = 2 /\ multisig.executed
    /\ \E p \in Instructions : Pending(p) /\ custody[p[1]].oracle = p[2]

\* C8: only designated signers have signature bits, and a sign call by any
\* other account fails with NotAuthorizedMultiSigError, whatever the state
\* of the proposal.
C8_OnlyDesignatedSigners ==
    /\ multisig.signed \subseteq multisig.signers
    /\ \A c \in Callers \ multisig.signers, p \in Instructions :
           LET r == add_custody_result(c, p[1], p[2])
           IN r.err = "NotAuthorizedMultiSigError" /\ r.ms = multisig
              /\ r.custody = custody

\* one signature short of the threshold, for the custody the pool lists
\* last: one more counted signature would register it
C8_Witness ==
    /\ Signed = multisig.min_signatures - 1
    /\ pool_custodies # <<>>
    /\ \E o \in Oracles : Pending(<<LastCustody, o>>)
    /\ Callers \ multisig.signers # {}

C10_AlwaysAlreadyExecuted ==
    multisig.executed =>
        \A c \in Callers, p \in Instructions :
            Pending(p) =>
                add_custody_result(c, p[1], p[2]).err
                    = "AlreadyExecutedMultiSigError"

\* C10 amended: once executed is true, every further sign call for the
\* proposal fails and changes neither the multisig nor a custody; the error
\* is AlreadyExecutedMultiSigError for a designated signer who has not
\* signed, AlreadySignedMultiSigError for one who has, and
\* NotAuthorizedMultiSigError for any other account.
C10_ExecutedOnce ==
    multisig.executed =>
        \A c \in Callers, p \in Instructions :
            Pending(p) =>
                LET r == add_custody_result(c, p[1], p[2])
                IN /\ r.ms = multisig /\ r.custody = custody
                   /\ r.err = (IF c \notin multisig.signers
                               THEN "NotAuthorizedMultiSigError"
                               ELSE IF c \in multisig.signed
                               THEN "AlreadySignedMultiSigError"
                               ELSE "AlreadyExecutedMultiSigError")

\* the proposal is executed and a designated signer has not signed it
C10_Witness ==
    /\ multisig.executed
    /\ multisig.signers \ multisig.signed # {}
    /\ \E p \in Instructions : Pending(p) /\ custody[p[1]].mint = p[1]

OpenFor(k, cm, lm) ==
    /\ Exists(k) /\ Position(k).valid /\ Position(k).exercised = 0
    /\ settle_accounts_err(k[1], k[2], cm, lm) = "Ok"

\* C12: for every open position and every current time, exercise_option
\* fails with InvalidTimeError unless now < expiry, auto_exercise fails with
\* InvalidTimeError unless now >= expiry, and the two never both succeed.
C12_ExpiryPartition ==
    \A k \in Positions, cm \in Mints, lm \in Mints :
        OpenFor(k, cm, lm) =>
            \A sp \in Quotes, tp \in Quotes :
                LET e == exercise_option_result(k[1], k[2], cm, lm, sp, tp).err
                    a == auto_exercise_result(k[1], k[2], cm, lm, tp).err
                IN /\ (now >= Position(k).expired_date) <=> e = "InvalidTimeError"
                   /\ (now < Position(k).expired_date) <=> a = "InvalidTimeError"
                   /\ ~(e = "Ok" /\ a = "Ok")

\* an open position at the instant of its expiry, its notional still locked
C12_Witness ==
    \E k \in Positions, lm \in Mints :
        /\ OpenFor(k, TargetMint, lm)
        /\ now = Position(k).expired_date
        /\ lp.locked[lm] >= Position(k).amount

\* the spot price of quote sp is on the losing side of the strike of od:
\* below it on the call side (one custody), above it on the put side
OutOfTheMoney(od, cm, lm, sp) ==
    IF cm = lm THEN get_price(sp) < od.strike_price
               ELSE od.strike_price < get_price(sp)

\* every check of exercise_option ahead of the moneyness check passes
ExerciseReachesPrice(k, lm, sp, tp) ==
    /\ now < Position(k).expired_date
    /\ new_from_oracle_err(sp) = "Ok" /\ new_from_oracle_err(tp) = "Ok"
    /\ lp.locked[lm] >= Position(k).amount

\* C13: exercise_option on an open position that is out of the money never
\* succeeds (so it settles nothing and moves no token), and when every
\* earlier check passes the error is InvalidPriceRequirementError.
C13_OutOfTheMoneyRejected ==
    \A k \in Positions, cm \in Mints, lm \in Mints :
        OpenFor(k, cm, lm) =>
            \A sp \in Quotes, tp \in Quotes :
                OutOfTheMoney(Position(k), cm, lm, sp) =>
                    LET e == exercise_option_result(k[1], k[2], cm, lm, sp, tp).err
                    IN /\ e # "Ok"
                       /\ ExerciseReachesPrice(k, lm, sp, tp)
                            => e = "InvalidPriceRequirementError"

\* an open position before its expiry, its notional locked, and a live quote
\* that puts it out of the money: only the moneyness check is in the way
C13_Witness ==
    \E k \in Positions, lm \in Mints, sp \in LiveQuotes :
        /\ OpenFor(k, TargetMint, lm)
        /\ ExerciseReachesPrice(k, lm, sp, sp)
        /\ OutOfTheMoney(Position(k), TargetMint, lm, sp)

\* C14 as stated: exercise_option of a call whose spot price equals the
\* strike is rejected.
C14_AtTheMoneyCallRejected ==
    \A k \in Positions, lm \in Mints :
        (OpenFor(k, lm, lm)) =>
            \A sp \in Quotes, tp \in Quotes :
                get_price(sp) = Position(k).strike_price
                    => exercise_option_result(k[1], k[2], lm, lm, sp, tp).err # "Ok"

\* C14 amended: the moneyness check of the call side is inclusive: with the
\* spot price equal to the strike, and every earlier check passed,
\* exercise_option succeeds and pays 0.
C14_AtTheMoneyCallSettlesAtZero ==
    \A k \in Positions, lm \in Mints :
        (OpenFor(k, lm, lm)) =>
            \A sp \in Quotes, tp \in Quotes :
                (/\ get_price(sp) = Position(k).strike_price
                 /\ ExerciseReachesPrice(k, lm, sp, tp))
                    => exercise_option_result(k[1], k[2], lm, lm, sp, tp)
                          = [err |-> "Ok", profit |-> 0]

\* an open position before its expiry, its notional locked on the custody it
\* is written on, and a live quote at its strike
C14_Witness ==
    \E k \in Positions, sp \in LiveQuotes :
        /\ OpenFor(k, TargetMint, TargetMint)
        /\ ExerciseReachesPrice(k, TargetMint, sp, sp)
        /\ get_price(sp) = Position(k).strike_price

\* the price auto_exercise reads (the quote of the locked custody's oracle)
\* is not on the winning side of the strike of od
NotInTheMoney(od, cm, lm, tp) ==
    IF cm = lm THEN get_price(tp) <= od.strike_price
               ELSE od.strike_price <= get_price(tp)

C16_PaysIntrinsicValue ==
    \A k \in Positions, cm \in Mints, lm \in Mints :
        OpenFor(k, cm, lm) =>
            \A sp \in LiveQuotes, tp \in LiveQuotes :
                (SameOracle(cm, lm) => sp = tp) =>
                    LET r == exercise_option_result(k[1], k[2], cm, lm, sp, tp)
                        od == Position(k)
                    IN r.err = "Ok" =>
                         r.profit = (IF cm = lm
                                     THEN get_price(sp) - od.strike_price
                                     ELSE od.strike_price - get_price(sp))
                                    * od.quantity

(* ============================ properties of sell ======================= *)
\* C17: sell_option succeeds only if, once the premium is credited, the
\* custody it locks on has total - locked >= notional; on success the locked
\* balance grows by exactly the notional, and a sale that the signer can pay
\* for fails with InvalidPoolBalanceError otherwise.
C17_LockNeedsFreeCapacity ==
    \A u \in Traders, a \in Amounts, c \in BOOLEAN, p \in BOOLEAN,
       pr \in Premiums :
        OptionsSold < MaxOptions =>
            LET L == LockMint(c)
                credited == sell_option_credit(p, pr)
                free == credited[L] - lp.locked[L]
                err == sell_option_err(u, a, c, p, pr)
                after == sell_option_lock(credited, c, a)
            IN /\ err = "Ok" => free >= a /\ after.locked[L] = lp.locked[L] + a
               /\ (free < a /\ wallet[u][PayMint(p)] >= pr)
                     => err = "InvalidPoolBalanceError"

\* the premium of a sale has moved from the signer to the pool and nothing
\* else has been written
PremiumMoved(signer, pay_sol, premium) ==
    [Accounts EXCEPT !.wallet[signer][PayMint(pay_sol)] = @ - premium,
                     !.lp_ata[PayMint(pay_sol)] = @ + premium,
                     !.lp.amount[PayMint(pay_sol)] = u64_add(@, premium)]

\* a failed exercise_option, auto_exercise or withdraw_usdc has written no
\* account when it returns its error: for the traders with every custody
\* and every pair of quotes, for the callers who hold no user account with
\* every custody (their calls fail before a quote is read)
SettlementChecksFirst ==
    /\ \A c \in Traders, i \in 1..MaxOptions, cm \in Mints, lm \in Mints,
          sp \in Quotes, tp \in Quotes :
          LET f == exercise_option_in_flight(c, i, cm, lm, sp, tp)
          IN f.err # "Ok" => f.acc = Accounts
    /\ \A c \in Traders, i \in 1..MaxOptions, cm \in Mints, lm \in Mints,
          tp \in Quotes :
          LET f == auto_exercise_in_flight(c, i, cm, lm, tp)
          IN f.err # "Ok" => f.acc = Accounts
    /\ \A c \in Callers \ Traders, i \in 1..MaxOptions, cm \in Mints,
          lm \in Mints, q \in LiveQuotes :
          /\ exercise_option_in_flight(c, i, cm, lm, q, q)
                = [err |-> "AccountNotInitialized", acc |-> Accounts]
          /\ auto_exercise_in_flight(c, i, cm, lm, q)
                = [err |-> "AccountNotInitialized", acc |-> Accounts]
    /\ \A c \in Callers, a \in Amounts :
          LET f == withdraw_usdc_in_flight(c, a)
          IN f.err # "Ok" => f.acc = Accounts

InFlightCommits ==
    [][Accounts' # Accounts =>
         \/ \E u \in Traders, a \in Amounts, k \in Strikes, e \in Expiries,
               c \in BOOLEAN, p \in BOOLEAN, pr \in Premiums :
               sell_option_in_flight(u, a, k, e, c, p, pr)
                   = [err |-> "Ok", acc |-> Accounts']
         \/ \E u \in Traders, i \in 1..MaxOptions, cm \in Mints, lm \in Mints,
               sp \in LiveQuotes, tp \in LiveQuotes :
               exercise_option_in_flight(u, i, cm, lm, sp, tp)
                   = [err |-> "Ok", acc |-> Accounts']
         \/ \E u \in Traders, i \in 1..MaxOptions, cm \in Mints, lm \in Mints,
               tp \in LiveQuotes :
               auto_exercise_in_flight(u, i, cm, lm, tp)
                   = [err |-> "Ok", acc |-> Accounts']
         \/ \E c \in WithdrawCallers, a \in Amounts :
               withdraw_usdc_in_flight(c, a) = [err |-> "Ok", acc |-> Accounts']
         \/ \E c \in Traders, a \in Amounts :
               withdraw_wsol_err(c, a) = "Ok"]_vars

\* the step sells a position to u: it creates one option record of u
Sells(u) == Len(option_detail'[u]) = Len(option_detail[u]) + 1

\* C19: a user's counter changes only in a sale to that user, which adds
\* exactly 1 to it and numbers the new position with the new counter value;
\* in every state the positions of a user carry the indices 1..option_index,
\* and exercise_option and auto_exercise fail for every index above the
\* counter, whatever the custodies and the prices.
C19_IndexCounter ==
    /\ [](\A u \in Traders :
            /\ Len(option_detail[u]) = user[u]
            /\ \A i \in 1..user[u] : option_detail[u][i].index = i
            /\ \A i \in (user[u] + 1)..(MaxOptions + 1), cm \in Mints,
                  lm \in Mints, sp \in Quotes, tp \in Quotes :
                  /\ exercise_option_result(u, i, cm, lm, sp, tp).err # "Ok"
                  /\ auto_exercise_result(u, i, cm, lm, tp).err # "Ok")
    /\ [][\A u \in Traders :
            /\ Sells(u) <=> user'[u] # user[u]
            /\ Sells(u) => /\ user'[u] = user[u] + 1
                           /\ option_detail'[u][user'[u]].index = user'[u]
                           /\ SubSeq(option_detail'[u], 1, user[u])
                                  = [i \in 1..user[u] |->
                                       [option_detail'[u][i] EXCEPT
                                          !.valid = option_detail[u][i].valid,
                                          !.exercised = option_detail[u][i].exercised,
                                          !.claimed = option_detail[u][i].claimed,
                                          !.profit = option_detail[u][i].profit]]
            /\ ~Sells(u) => Len(option_detail'[u]) = Len(option_detail[u])]_vars

\* a user holds two positions, one of them settled: the counter stood
\* through a second sale and a settlement
C19_Witness ==
    \E u \in Traders :
        /\ user[u] = 2
        /\ \E i \in 1..2 : ~option_detail[u][i].valid

(* -------------------- properties of the owner check -------------------- *)
\* the exercise_option calls on an existing position by somebody who is not
\* its owner all return an error of the set errs
NonOwnerGets(errs) ==
    \A c \in Callers, k \in Positions :
        (Exists(k) /\ c # Position(k).owner) =>
            \A cm \in Mints, lm \in Mints, sp \in Quotes, tp \in Quotes :
                LET r == exercise_option_as(c, k, k[2], cm, lm, sp, tp)
                IN r.err \in errs /\ r.profit = 0

FreeTokens(m) == lp_ata[m] - lp.locked[m]

\* C21: a withdrawal of more than the asset's total balance minus its locked
\* balance fails, for either asset and every caller, so the collateral
\* locked for the open positions stays covered by the tokens the pool holds.
C21_WithdrawOnlyFree ==
    /\ \A c \in Callers, a \in Amounts :
          /\ a > lp.amount[USDC] - lp.locked[USDC]
                => withdraw_usdc_err(c, a) # "Ok"
          /\ a > lp.amount[WSOL] - lp.locked[WSOL]
                => withdraw_wsol_err(c, a) # "Ok"
    /\ \A m \in Mints : FreeTokens(m) >= 0

\* C22: a withdrawal of either asset by a signer who is not the recorded
\* admin fails, whatever the amount.
C22_WithdrawAdminOnly ==
    \A c \in Callers \ {Admin}, a \in Amounts :
        /\ withdraw_usdc_err(c, a) # "Ok"
        /\ withdraw_wsol_err(c, a) # "Ok"

(* ------------------ properties of custody registration ---------------- *)
Registered(m) == custody[m].mint # NoKey

\* C23: the pool's list never holds an asset twice, and no step changes the
\* fields of a custody that is already registered: a registration of a
\* registered asset fails, and an executed registration initializes only
\* the most recently appended entry of the list.
C23_RegisteredOnce ==
    /\ [](\A i, j \in 1..Len(pool_custodies) :
            pool_custodies[i] = pool_custodies[j] => i = j)
    /\ [][\A m \in Mints :
            /\ Registered(m) => custody'[m] = custody[m]
            /\ custody'[m] # custody[m] => m = LastCustody]_vars

(* --------------------- properties of the arithmetic -------------------- *)
\* C24: a withdrawal whose debit would take the stored total below zero
\* fails, and no step stores a total reduced modulo the width of u64: what
\* a withdrawal takes from the stored total is exactly the amount it pays,
\* what a sale adds to the locked balance it takes from the credited total.
C24_NoWrap ==
    /\ [](\A a \in Amounts :
            (lp_ata[USDC] >= a /\ lp.amount[USDC] < a)
                => withdraw_usdc_in_flight(Admin, a).err # "Ok")
    /\ [][/\ withdrawn'[USDC] # withdrawn[USDC] =>
               lp'.amount[USDC] =
                   lp.amount[USDC] - (withdrawn'[USDC] - withdrawn[USDC])
          /\ \A m \in Mints : premium_paid'[m] # premium_paid[m] =>
               lp'.amount[m] + lp'.locked[m] =
                   lp.amount[m] + lp.locked[m]
                       + (premium_paid'[m] - premium_paid[m])]_vars

(* ------------------- properties of the locked balance ----------------- *)
\* the notional of the open positions among the first n of u whose
\* collateral was locked in mint m
RECURSIVE OpenNotional(_, _, _)
OpenNotional(u, n, m) ==
    IF n = 0 THEN 0
    ELSE OpenNotional(u, n - 1, m)
           + (IF option_detail[u][n].valid
                 /\ LockMint(option_detail[u][n].option_type) = m
              THEN option_detail[u][n].amount ELSE 0)

\* the collateral the open positions of all users hold locked in mint m
LockedByOpen(m) ==
    LET RECURSIVE Sum(_)
        Sum(S) == IF S = {} THEN 0
                  ELSE LET u == CHOOSE x \in S : TRUE
                       IN OpenNotional(u, Len(option_detail[u]), m)
                            + Sum(S \ {u})
    IN Sum(Traders)

\* C25: in every state the locked balance of each custody is the sum of the
\* notionals of the open positions locked against it, so the custody an
\* open position locked always holds at least that position's notional.
C25_LockedIsOpenNotional ==
    /\ \A m \in Mints : lp.locked[m] = LockedByOpen(m)
    /\ \A k \in Positions :
          (Exists(k) /\ Position(k).valid) =>
              lp.locked[LockMint(Position(k).option_type)] >= Position(k).amount

(* ------------------------ properties of closing ------------------------ *)
\* C26: every position is eventually closed when the clock advances and
\* auto_exercise is sent for each position as long as it can succeed: for
\* an open position past its expiry some auto_exercise call succeeds, so
\* the position eventually has valid = false.
C26_EventuallyClosed ==
    \A k \in Positions :
        Exists(k) ~> (Exists(k) /\ ~Position(k).valid)

\* the step closes position k
Closes(k) ==
    /\ Exists(k) /\ Position(k).valid
    /\ ~option_detail'[k[1]][k[2]].valid

\* C27: a successful auto_exercise moves no token: the step that closes a
\* position leaves every wallet, the pool's token accounts, the total
\* balances and the user counters as they were, even when it books a
\* non-zero profit; it writes only profit, claimed, exercised and valid of
\* that position and lowers the locked balance of one custody by the
\* position's notional.
C27_AutoExerciseMovesNoTokens ==
    [][\A k \in Positions : Closes(k) =>
          /\ wallet' = wallet /\ lp_ata' = lp_ata
          /\ lp'.amount = lp.amount /\ user' = user
          /\ option_detail' = [option_detail EXCEPT ![k[1]][k[2]] =
                [Position(k) EXCEPT
                    !.profit = option_detail'[k[1]][k[2]].profit,
                    !.claimed = option_detail'[k[1]][k[2]].claimed,
                    !.exercised = now, !.valid = FALSE]]
          /\ \E lm \in Mints :
                lp'.locked = [lp.locked EXCEPT ![lm] = @ - Position(k).amount]
      ]_vars

\* a position closed by auto_exercise in the money: a profit is booked and
\* nothing was ever paid out of the pool
C27_Witness ==
    \E k \in Positions :
        /\ Exists(k) /\ ~Position(k).valid
        /\ Position(k).profit > 0 /\ Position(k).claimed > 0
        /\ payout_paid = Zero
        /\ \A m \in Mints : lp_ata[m] = PoolDeposit + premium_paid[m]

====
